---------------------------- MODULE Spec2Model ----------------------------
(***************************************************************************)
(* Land-record retrieval: one command-line run of main.py.                 *)
(*                                                                         *)
(* A run looks the four-part key up in the record store, and unless it is  *)
(* served from the store it drives the nine steps of the postback protocol *)
(* (JamabandiDataExtractor, each step under retry_on_exception) and saves  *)
(* the resolved record through LandRecordCRUD.                             *)
(*                                                                         *)
(* One action is one attempt of one step: the request built from the held  *)
(* tokens and codes, the response chosen by the remote server, the parse,  *)
(* the token refresh, the retry bookkeeping, and the code of extract_data  *)
(* and __main__ that runs until the next request is sent.                  *)
(***************************************************************************)
EXTENDS Integers, Sequences, FiniteSets, TLC

(***************************************************************************)
(* Bounds of the model.                                                    *)
(***************************************************************************)
MaxOpts == 2        \* <option> elements in one drop-down of a response
MaxRows == 2        \* rows of the candidate table of a response

(***************************************************************************)
(* Program constants.                                                      *)
(***************************************************************************)
retries == 3        \* retry_on_exception(retries=3, ...)
delay == 5          \* retry_on_exception(..., delay=5, ...)

None == "None"      \* Python's None
Absent == "Absent"  \* a key that a request payload does not have

(* Python truthiness of a string-or-None value: `not x` *)
Falsy(x) == x = None \/ x = ""

StepOrder ==
    << "get_jamabandi_page", "get_districts", "get_sub_districts",
       "get_villeges", "get_years", "get_khasras", "get_nakals",
       "select_nakals", "get_nakal_html" >>

Last(s) == s[Len(s)]

SeqsUpTo(S, n) == UNION { [1..k -> S] : k \in 0..n }


(***************************************************************************)
(* Values exchanged with the remote server.                                *)
(***************************************************************************)

(* The hidden inputs __VIEWSTATE, __EVENTARGUMENT, __EVENTVALIDATION and   *)
(* __VIEWSTATEGENERATOR of a response page; xpath(...).get() gives None    *)
(* for an input the page does not have.                                    *)
Hidden(vs, ea, ev, vg) ==
    [viewstate |-> vs, event_arg |-> ea, event_validation |-> ev,
     viewstate_generator |-> vg]

HiddenInputs ==
    { Hidden("v1", "a1", "e1", "g1"),
      Hidden("v2", None, "e2", "g2"),
      Hidden("v1", "a1", "e1", None),
      Hidden(None, "a1", "e1", "g1"),
      Hidden("v1", "a1", None, "g1"),
      Hidden("", "a1", "e1", "g1") }

(* The names a caller may supply, and per level the labels and codes the   *)
(* server may list.                                                        *)
DistrictNames == {"DistrictA", "DistrictC"}
TehsilNames == {"TehsilA"}
VillageNames == {"VillageA"}
KhasraNumbers == {"6"}

Opt(t, v) == [text |-> t, value |-> v]

DistrictOptions == { Opt("DistrictA", "01"), Opt("DistrictA", "02"), Opt("districta", "02") }
TehsilOptions == { Opt("TehsilA", "001"), Opt("TehsilB", "002") }
VillageOptions == { Opt("VillageA", "0284"), Opt("VillageB", "0285") }
KhasraOptions == { Opt("6", "6"), Opt("7", "60") }
YearOptions == { Opt(y, y) : y \in {"2022-2023", "2021-2022"} }

(* The href of a candidate row's link, as the pieces between its '$'       *)
(* characters: javascript:__doPostBack('ctl00$...$GridView1','Select$0')   *)
Href(n) == << "javascript:__doPostBack('ctl00", "ContentPlaceHolder1",
              "GridView1','Select", n >>

Row(h, k2, k3) == [href |-> h, td2 |-> k2, td3 |-> k3]

(* A row whose first cell holds no link: get() gives None. *)
NoHref == << >>

CandidateRows ==
    { Row(Href("0')"), "3", "9"),
      Row(Href("1')"), None, "10"),
      Row(NoHref, "4", "11") }

Doc(v, h, t, d, y) ==
    [lblvill |-> v, lblhad |-> h, lblteh |-> t, lbldis |-> d, lblyer |-> y]

Documents ==
    { Doc("VillageA", "50", "TehsilA", "DistrictA", "2022-2023"),
      Doc("VillageB", "51", "TehsilB", "districta", "2021-2022"),
      Doc(None, "50", "TehsilA", "DistrictA", "2022-2023") }

NoDoc == Doc(None, None, None, None, None)

(* A response: a transport failure (timeout, connection error, or a status *)
(* raise_for_status() rejects), or a page.                                 *)
Page(h, opts, rows, doc) ==
    [status |-> "ok", hidden |-> h, options |-> opts, rows |-> rows, doc |-> doc]

TransportFailure ==
    [status |-> "error", hidden |-> Hidden(None, None, None, None),
     options |-> << >>, rows |-> << >>, doc |-> NoDoc]

NoResponse ==
    [status |-> "none", hidden |-> Hidden(None, None, None, None),
     options |-> << >>, rows |-> << >>, doc |-> NoDoc]

FormPages == { Page(h, << >>, << >>, NoDoc) : h \in HiddenInputs }

(* The hidden inputs of a form page that kept both refreshed tokens; a     *)
(* page without them (an error page) has no drop-down and no table either. *)
TokenInputs ==
    { h \in HiddenInputs :
        h.viewstate \notin {None, ""} /\ h.event_validation \notin {None, ""} }

OptionPages(O) ==
    { Page(h, o, << >>, NoDoc) : h \in TokenInputs, o \in SeqsUpTo(O, MaxOpts) }
        \cup { Page(h, << >>, << >>, NoDoc) : h \in HiddenInputs \ TokenInputs }

CandidatePages ==
    { Page(h, << >>, r, NoDoc) :
        h \in TokenInputs, r \in SeqsUpTo(CandidateRows, MaxRows) }
        \cup { Page(h, << >>, << >>, NoDoc) : h \in HiddenInputs \ TokenInputs }

(* The document page is no form: it may or may not carry the hidden inputs. *)
DocumentPages ==
    { Page(h, << >>, << >>, d) :
        h \in {Hidden("v1", "a1", "e1", "g1"), Hidden(None, None, None, None)},
        d \in Documents }


(***************************************************************************)
(* Pure helpers of the step functions.                                     *)
(***************************************************************************)

EmptyDict == [k \in {} |-> None]

(* {o.text: o.value for o in options}: a label listed twice keeps the      *)
(* value of its last option.                                               *)
RECURSIVE DictOf_FirstWins(_)
DictOf_FirstWins(opts) ==
    IF opts = << >> THEN EmptyDict
    ELSE LET d == DictOf_FirstWins(Tail(opts))
             o == Head(opts)
         IN  [k \in DOMAIN d \cup {o.text} |->
                 IF k = o.text THEN o.value ELSE d[k]]

RECURSIVE DictOf(_)
DictOf(opts) ==
    IF opts = << >> THEN EmptyDict
    ELSE LET d == DictOf(SubSeq(opts, 1, Len(opts) - 1))
             o == Last(opts)
         IN  [k \in DOMAIN d \cup {o.text} |->
                 IF k = o.text THEN o.value ELSE d[k]]

(* xpath(...'/option/@value').getall() *)
ValuesOf(opts) == [i \in 1..Len(opts) |-> opts[i].value]

(* s.replace("')", "") for the last piece of an href *)
StripCall(s) ==
    CASE s = "0')" -> "0"
      [] s = "1')" -> "1"
      [] OTHER -> s

(* 'Select$' + href.split('$')[-1].replace("')", ""), kept as its pieces   *)
NakalId(href) == << "Select", StripCall(Last(href)) >>

(* The loop over the candidate rows: the ids in row order, and the detail  *)
(* dict that every row overwrites.  A row without a link makes             *)
(* nakal_id.split raise AttributeError.                                    *)
RowsHaveLinks(rows) == \A i \in 1..Len(rows) : rows[i].href # NoHref

NakalIds(rows) == [i \in 1..Len(rows) |-> NakalId(rows[i].href)]

EmptyDetail == [khewat_no |-> "", khatoni_no |-> ""]

NakalDetail_FirstRow(rows) ==
    IF rows = << >> THEN EmptyDetail
    ELSE [khewat_no |-> Head(rows).td2, khatoni_no |-> Head(rows).td3]

NakalDetail(rows) ==
    IF rows = << >> THEN EmptyDetail
    ELSE [khewat_no |-> Last(rows).td2, khatoni_no |-> Last(rows).td3]

(***************************************************************************)
(* Exceptions and results.                                                 *)
(***************************************************************************)
NoErr == [type |-> "None", missing_fields |-> << >>]
RequestException == [type |-> "RequestException", missing_fields |-> << >>]
AttributeError == [type |-> "AttributeError", missing_fields |-> << >>]
FormFieldNotFoundException(missing) ==
    [type |-> "FormFieldNotFoundException", missing_fields |-> missing]

NoValue == [type |-> "None"]
Str(pieces) == [type |-> "str", text |-> pieces]
Dict(d) == [type |-> "dict", value |-> d]
List(l) == [type |-> "list", items |-> l]

NotFound(prefix, name) == Str(<< prefix, name, " not found!" >>)

(***************************************************************************)
(* The record store (models.py, land_record_crud.py).                      *)
(***************************************************************************)
DataColumns ==
    { "district_name", "district_code", "tehsil_name", "tehsil_code",
      "villege_name", "villege_code", "jamabandi_year", "khewat_no",
      "khatoni_no", "khasra_code", "khasra_no", "nakal_villege",
      "nakal_hadbast", "nakal_tehsil", "nakal_district", "nakal_year" }

(* Column(String, nullable=False) on every data column *)
NotNullOk(rec) == \A c \in DataColumns : rec[c] # None

RECURSIVE MaxId(_)
MaxId(s) ==
    IF s = << >> THEN 0
    ELSE LET m == MaxId(Tail(s)) IN IF Head(s).id > m THEN Head(s).id ELSE m

(* LandRecord(data): the row, with the id the table assigns on insert *)
LandRecord(data, id) ==
    [c \in DataColumns \cup {"id"} |-> IF c = "id" THEN id ELSE data[c]]

MatchesKey(r, district_name, tehsil_name, villege_name, khasra_no) ==
    /\ r.district_name = district_name
    /\ r.tehsil_name = tehsil_name
    /\ r.villege_name = villege_name
    /\ r.khasra_no = khasra_no

search_records_by_input_data(s, district_name, tehsil_name, villege_name, khasra_no) ==
    SelectSeq(s, LAMBDA r :
        MatchesKey(r, district_name, tehsil_name, villege_name, khasra_no))

(* What a store operation gives: the store afterwards, the value returned, *)
(* and whether commit() raised IntegrityError (nothing is then written).   *)
StoreResult(s, result, raised) == [store |-> s, result |-> result, raised |-> raised]

IndexOfId(s, id) ==
    IF \E i \in 1..Len(s) : s[i].id = id
    THEN CHOOSE i \in 1..Len(s) : s[i].id = id /\ \A j \in 1..(i - 1) : s[j].id # id
    ELSE 0

update_record(s, record_id, data) ==
    LET i == IndexOfId(s, record_id) IN
    IF i = 0 THEN StoreResult(s, NoValue, FALSE)
    ELSE LET record == [c \in DOMAIN s[i] |->
                           IF c \in DOMAIN data THEN data[c] ELSE s[i][c]]
         IN  IF NotNullOk(record)
             THEN StoreResult([s EXCEPT ![i] = record], Dict(record), FALSE)
             ELSE StoreResult(s, NoValue, TRUE)

create_record(s, data) ==
    LET record == LandRecord(data, MaxId(s) + 1) IN
    IF NotNullOk(record)
    THEN StoreResult(Append(s, record), Dict(record), FALSE)
    ELSE StoreResult(s, NoValue, TRUE)

create_record_by_checking_record_AlwaysAdds(s, district_name, tehsil_name, villege_name, khasra_no, data, force_refresh) ==
    LET found == search_records_by_input_data(
                     s, district_name, tehsil_name, villege_name, khasra_no)
    IN  IF found # << >> /\ ~force_refresh
        THEN StoreResult(s, Dict(found[1]), FALSE)
        ELSE create_record(s, data)

create_record_by_checking_record(s, district_name, tehsil_name, villege_name, khasra_no, data, force_refresh) ==
    LET found == search_records_by_input_data(
                     s, district_name, tehsil_name, villege_name, khasra_no)
    IN  IF found # << >> /\ ~force_refresh
        THEN StoreResult(s, Dict(found[1]), FALSE)
        ELSE IF found # << >> /\ force_refresh
        THEN update_record(s, found[1].id, data)
        ELSE create_record(s, data)

delete_record_Truncates(s, record_id) ==
    LET i == IndexOfId(s, record_id) IN
    IF i = 0 THEN StoreResult(s, FALSE, FALSE)
    ELSE StoreResult(SubSeq(s, 1, i - 1), TRUE, FALSE)

delete_record(s, record_id) ==
    LET i == IndexOfId(s, record_id) IN
    IF i = 0 THEN StoreResult(s, FALSE, FALSE)
    ELSE StoreResult(SubSeq(s, 1, i - 1) \o SubSeq(s, i + 1, Len(s)), TRUE, FALSE)

(***************************************************************************)
(* State.                                                                  *)
(***************************************************************************)
VARIABLES
    store,                \* rows of land_records, in rowid order
    args,                 \* the parsed command line
    pc,                   \* "main", the step about to be attempted, "done"
                          \* (main returned), "exit" (sys.exit of the retry
                          \* wrapper), "crash" (unhandled IntegrityError)
    viewstate,            \* JamabandiDataExtractor.viewstate
    event_arg,            \* JamabandiDataExtractor.event_arg
    event_validation,     \* JamabandiDataExtractor.event_validation
    viewstate_generator,  \* JamabandiDataExtractor.viewstate_generator
    attempt,              \* wrapper: attempt
    err,                  \* wrapper: err, the exception of the last failure
    calls,                \* calls of func the running wrapper has made
    slept,                \* the time.sleep(delay) calls of that wrapper
    request,              \* the request sent by the latest attempt
    response,             \* the response the latest attempt received
    options,              \* extract_data: the dict a listing step has just
                          \* returned (empty once the next request is sent)
    district_id,          \* extract_data locals
    sub_district_id,
    villege_id,
    years,
    khasra_id,
    nakals,
    nakal_detail,
    output,               \* what extract_data returned
    nakal_data,           \* __main__: nakal_data
    succeeded,            \* the steps that have returned, in order
    me,                   \* the chain that is running
    parked                \* the state of the other chain, if there is one

tokenVars == << viewstate, event_arg, event_validation, viewstate_generator >>
wrapVars == << attempt, err, calls, slept >>
localVars == << options, district_id, sub_district_id, villege_id, years,
                khasra_id, nakals, nakal_detail >>
mainVars == << store, output, nakal_data >>
vars == << store, args, pc, viewstate, event_arg, event_validation,
           viewstate_generator, attempt, err, calls, slept, request,
           response, options, district_id, sub_district_id, villege_id, years,
           khasra_id, nakals, nakal_detail, output, nakal_data, succeeded,
           me, parked >>

TokenSet == Hidden(viewstate, event_arg, event_validation, viewstate_generator)

(* Rows earlier runs have stored. *)
StoredRecord(id, district_name, district_code, khewat_no) ==
    [id |-> id,
     district_name |-> district_name, district_code |-> district_code,
     tehsil_name |-> "TehsilA", tehsil_code |-> "001",
     villege_name |-> "VillageA", villege_code |-> "0284",
     jamabandi_year |-> "2022-2023",
     khewat_no |-> khewat_no, khatoni_no |-> "9",
     khasra_code |-> "6", khasra_no |-> "6",
     nakal_villege |-> "VillageA", nakal_hadbast |-> "50",
     nakal_tehsil |-> "TehsilA", nakal_district |-> district_name,
     nakal_year |-> "2022-2023"]

InitStores ==
    { << >>,
      << StoredRecord(1, "districta", "02", "3"),
         StoredRecord(2, "DistrictA", "01", "3") >> }

Args ==
    [district_name : DistrictNames, sub_district_name : TehsilNames,
     village_name : VillageNames, khasra_no : KhasraNumbers,
     force_refresh : BOOLEAN]

NoRequest ==
    [method |-> "none", url |-> None, target |-> Absent,
     event_argument |-> Absent, viewstate |-> Absent,
     viewstate_generator |-> Absent, event_validation |-> Absent,
     ddldname |-> Absent, ddltname |-> Absent, ddlvname |-> Absent,
     ddlPeriod |-> Absent, ddlkhasra |-> Absent]

(* One chain before its first statement. *)
InitChain ==
    /\ args \in Args
    /\ pc = "main"
    /\ viewstate = None
    /\ event_arg = None
    /\ event_validation = None
    /\ viewstate_generator = None
    /\ attempt = 0
    /\ err = NoErr
    /\ calls = 0
    /\ slept = << >>
    /\ request = NoRequest
    /\ response = NoResponse
    /\ options = EmptyDict
    /\ district_id = None
    /\ sub_district_id = None
    /\ villege_id = None
    /\ years = << >>
    /\ khasra_id = None
    /\ nakals = << >>
    /\ nakal_detail = EmptyDetail
    /\ output = NoValue
    /\ nakal_data = NoValue
    /\ succeeded = << >>

(* The program runs one chain: there is no other one. *)
NoChain == << >>

Init ==
    /\ store \in InitStores
    /\ InitChain
    /\ me = 1
    /\ parked = NoChain

(***************************************************************************)
(* retry_on_exception: wrapper.  pc names the function whose wrapper is    *)
(* running; a wrapper that ends leaves attempt = 0 and err = None for the  *)
(* next one.                                                               *)
(***************************************************************************)

Raise_OneMore(func, e) ==
    /\ calls' = calls + 1
    /\ attempt' = attempt + 1
    /\ err' = e
    /\ slept' = Append(slept, delay)
    /\ pc' = IF attempt' <= retries THEN func ELSE "exit"
    /\ options' = EmptyDict
    /\ UNCHANGED << district_id, sub_district_id, villege_id, years,
                    khasra_id, nakals, nakal_detail, mainVars, succeeded >>

Raise_TransportUncounted(func, e) ==
    /\ calls' = calls + 1
    /\ attempt' = IF e = RequestException THEN attempt ELSE attempt + 1
    /\ err' = e
    /\ slept' = IF e = RequestException THEN slept ELSE Append(slept, delay)
    /\ pc' = IF attempt' < retries THEN func ELSE "exit"
    /\ options' = EmptyDict
    /\ UNCHANGED << district_id, sub_district_id, villege_id, years,
                    khasra_id, nakals, nakal_detail, mainVars, succeeded >>

Raise_Restarts(func, e) ==
    /\ calls' = calls + 1
    /\ attempt' = attempt + 1
    /\ err' = e
    /\ slept' = Append(slept, delay)
    /\ pc' = IF attempt' < retries THEN "get_jamabandi_page" ELSE "exit"
    /\ options' = EmptyDict
    /\ UNCHANGED << district_id, sub_district_id, villege_id, years,
                    khasra_id, nakals, nakal_detail, mainVars, succeeded >>

Raise_ReturnsToCaller(func, e) ==
    /\ calls' = calls + 1
    /\ attempt' = attempt + 1
    /\ err' = e
    /\ slept' = Append(slept, delay)
    /\ pc' = IF attempt' < retries THEN func ELSE "done"
    /\ options' = EmptyDict
    /\ UNCHANGED << district_id, sub_district_id, villege_id, years,
                    khasra_id, nakals, nakal_detail, mainVars, succeeded >>

(* func raised e: count it, keep its traceback, sleep, and loop while      *)
(* attempt < retries; past the loop, sys.exit.                             *)
Raise_NoFinalSleep(func, e) ==
    /\ calls' = calls + 1
    /\ attempt' = attempt + 1
    /\ err' = e
    /\ slept' = IF attempt' < retries THEN Append(slept, delay) ELSE slept
    /\ pc' = IF attempt' < retries THEN func ELSE "exit"
    /\ options' = EmptyDict
    /\ UNCHANGED << district_id, sub_district_id, villege_id, years,
                    khasra_id, nakals, nakal_detail, mainVars, succeeded >>

Raise_KeepsFirst(func, e) ==
    /\ calls' = calls + 1
    /\ attempt' = attempt + 1
    /\ err' = IF err = NoErr THEN e ELSE err
    /\ slept' = Append(slept, delay)
    /\ pc' = IF attempt' < retries THEN func ELSE "exit"
    /\ options' = EmptyDict
    /\ UNCHANGED << district_id, sub_district_id, villege_id, years,
                    khasra_id, nakals, nakal_detail, mainVars, succeeded >>

Raise(func, e) ==
    /\ calls' = calls + 1
    /\ attempt' = attempt + 1
    /\ err' = e
    /\ slept' = Append(slept, delay)
    /\ pc' = IF attempt' < retries THEN func ELSE "exit"
    /\ options' = EmptyDict
    /\ UNCHANGED << district_id, sub_district_id, villege_id, years,
                    khasra_id, nakals, nakal_detail, mainVars, succeeded >>

Return_KeepsCount(func) ==
    /\ calls' = calls
    /\ attempt' = attempt
    /\ err' = err
    /\ slept' = slept
    /\ succeeded' = Append(succeeded, func)

(* func returned: the wrapper returns its value at once. *)
Return(func) ==
    /\ calls' = 0
    /\ attempt' = 0
    /\ err' = NoErr
    /\ slept' = << >>
    /\ succeeded' = Append(succeeded, func)

(***************************************************************************)
(* Requests.                                                               *)
(***************************************************************************)
Get(url) == [NoRequest EXCEPT !.method = "GET", !.url = url]

(* The form data of a POST: the event target and argument, the held        *)
(* tokens, and the codes of the levels the step passes.                    *)
Post(target, argument, d, t, v, p, k) ==
    [method |-> "POST", url |-> "NakalRecord", target |-> target,
     event_argument |-> argument, viewstate |-> viewstate,
     viewstate_generator |-> viewstate_generator,
     event_validation |-> event_validation,
     ddldname |-> d, ddltname |-> t, ddlvname |-> v, ddlPeriod |-> p,
     ddlkhasra |-> k]

TokensMissing_OnlyIfBoth(r) ==
    Falsy(r.hidden.viewstate) /\ Falsy(r.hidden.event_validation)

TokensMissing_AllFour(r) ==
    \/ Falsy(r.hidden.viewstate) \/ Falsy(r.hidden.event_validation)
    \/ Falsy(r.hidden.event_arg) \/ Falsy(r.hidden.viewstate_generator)

(* The check every POST step makes of the two tokens it refreshes. *)
TokensMissing(r) ==
    Falsy(r.hidden.viewstate) \/ Falsy(r.hidden.event_validation)

RefreshTokens_AllFour(r) ==
    /\ viewstate' = r.hidden.viewstate
    /\ event_validation' = r.hidden.event_validation
    /\ event_arg' = r.hidden.event_arg
    /\ viewstate_generator' = r.hidden.viewstate_generator

(* self.viewstate = viewstate; self.event_validation = event_validation *)
RefreshTokens(r) ==
    /\ viewstate' = r.hidden.viewstate
    /\ event_validation' = r.hidden.event_validation
    /\ UNCHANGED << event_arg, viewstate_generator >>

(***************************************************************************)
(* __main__: before and after extract_data.                                *)
(***************************************************************************)

Main_DeletesOnForce ==
    /\ pc = "main"
    /\ LET found == search_records_by_input_data(
                        store, args.district_name, args.sub_district_name,
                        args.village_name, args.khasra_no)
       IN  /\ nakal_data' = List(found)
           /\ pc' = IF found = << >> \/ args.force_refresh
                    THEN "get_jamabandi_page" ELSE "done"
           /\ store' = IF found # << >> /\ args.force_refresh
                       THEN delete_record(store, found[1].id).store
                       ELSE store
    /\ viewstate' = None
    /\ event_arg' = None
    /\ event_validation' = None
    /\ viewstate_generator' = None
    /\ UNCHANGED << args, wrapVars, localVars, output, request,
                    response, succeeded, me, parked >>

Main_IgnoresForce ==
    /\ pc = "main"
    /\ LET found == search_records_by_input_data(
                        store, args.district_name, args.sub_district_name,
                        args.village_name, args.khasra_no)
       IN  /\ nakal_data' = List(found)
           /\ pc' = IF found = << >> THEN "get_jamabandi_page" ELSE "done"
    /\ viewstate' = None
    /\ event_arg' = None
    /\ event_validation' = None
    /\ viewstate_generator' = None
    /\ UNCHANGED << store, args, wrapVars, localVars, output, request,
                    response, succeeded, me, parked >>

(* The lookup of the key, and the choice between the store and a scrape.   *)
(* A scrape starts with JamabandiDataExtractor(): all four tokens None.    *)
Main ==
    /\ pc = "main"
    /\ LET found == search_records_by_input_data(
                        store, args.district_name, args.sub_district_name,
                        args.village_name, args.khasra_no)
       IN  /\ nakal_data' = List(found)
           /\ pc' = IF found = << >> \/ args.force_refresh
                    THEN "get_jamabandi_page" ELSE "done"
    /\ viewstate' = None
    /\ event_arg' = None
    /\ event_validation' = None
    /\ viewstate_generator' = None
    /\ UNCHANGED << store, args, wrapVars, localVars, output, request,
                    response, succeeded, me, parked >>

(* The flat column dict __main__ builds from the nested result. *)
DataOf(o) ==
    [district_name |-> o.district_name, district_code |-> o.district_code,
     tehsil_name |-> o.tehsil_name, tehsil_code |-> o.tehsil_code,
     villege_name |-> o.villege_name, villege_code |-> o.villege_code,
     jamabandi_year |-> o.jamabandi_year,
     khewat_no |-> o.khewat_no, khatoni_no |-> o.khatoni_no,
     khasra_code |-> o.khasra_code, khasra_no |-> o.khasra_no,
     nakal_villege |-> o.inner_details.villege,
     nakal_hadbast |-> o.inner_details.hadbast_no,
     nakal_tehsil |-> o.inner_details.tehsil,
     nakal_district |-> o.inner_details.district,
     nakal_year |-> o.inner_details.year]

(* extract_data returned out: a dict is saved, a message is only printed.  *)
(* An IntegrityError of the save is caught nowhere.                        *)
ReturnToMain(out) ==
    /\ output' = out
    /\ IF out.type = "dict"
       THEN LET saved == create_record_by_checking_record(
                             store, args.district_name, args.sub_district_name,
                             args.village_name, args.khasra_no,
                             DataOf(out.value), args.force_refresh)
            IN  /\ store' = saved.store
                /\ nakal_data' = IF saved.raised THEN out ELSE saved.result
                /\ pc' = IF saved.raised THEN "crash" ELSE "done"
       ELSE /\ store' = store
            /\ nakal_data' = out
            /\ pc' = "done"

(***************************************************************************)
(* extract_data: what it does with the value each step returns.            *)
(***************************************************************************)
after_get_jamabandi_page ==
    /\ pc' = "get_districts"
    /\ UNCHANGED << localVars, mainVars >>

Lower(name) == IF name = "DistrictA" THEN "districta" ELSE name

after_get_districts_IgnoreCase(districts) ==
    /\ options' = districts
    /\ IF \A k \in DOMAIN districts : Lower(k) # Lower(args.district_name)
       THEN /\ ReturnToMain(NotFound("District name:", args.district_name))
            /\ UNCHANGED district_id
       ELSE /\ district_id' = districts[CHOOSE k \in DOMAIN districts :
                                           Lower(k) = Lower(args.district_name)]
            /\ pc' = "get_sub_districts"
            /\ UNCHANGED mainVars
    /\ UNCHANGED << sub_district_id, villege_id, years, khasra_id, nakals,
                    nakal_detail >>

after_get_districts(districts) ==
    /\ options' = districts
    /\ IF args.district_name \notin DOMAIN districts
       THEN /\ ReturnToMain(NotFound("District name:", args.district_name))
            /\ UNCHANGED district_id
       ELSE /\ district_id' = districts[args.district_name]
            /\ pc' = "get_sub_districts"
            /\ UNCHANGED mainVars
    /\ UNCHANGED << sub_district_id, villege_id, years, khasra_id, nakals,
                    nakal_detail >>

after_get_sub_districts_GoesOn(sub_districts) ==
    /\ options' = sub_districts
    /\ IF args.sub_district_name \notin DOMAIN sub_districts
       THEN /\ output' = NotFound("sub-district/tehsil name:",
                                  args.sub_district_name)
            /\ pc' = "get_villeges"
            /\ UNCHANGED << sub_district_id, store, nakal_data >>
       ELSE /\ sub_district_id' = sub_districts[args.sub_district_name]
            /\ pc' = "get_villeges"
            /\ UNCHANGED mainVars
    /\ UNCHANGED << district_id, villege_id, years, khasra_id, nakals,
                    nakal_detail >>

after_get_sub_districts(sub_districts) ==
    /\ options' = sub_districts
    /\ IF args.sub_district_name \notin DOMAIN sub_districts
       THEN /\ ReturnToMain(NotFound("sub-district/tehsil name:",
                                     args.sub_district_name))
            /\ UNCHANGED sub_district_id
       ELSE /\ sub_district_id' = sub_districts[args.sub_district_name]
            /\ pc' = "get_villeges"
            /\ UNCHANGED mainVars
    /\ UNCHANGED << district_id, villege_id, years, khasra_id, nakals,
                    nakal_detail >>

after_get_villeges_SkipYears(villeges) ==
    /\ options' = villeges
    /\ IF args.village_name \notin DOMAIN villeges
       THEN /\ ReturnToMain(NotFound("Villege name:", args.village_name))
            /\ UNCHANGED villege_id
       ELSE /\ villege_id' = villeges[args.village_name]
            /\ pc' = "get_khasras"
            /\ UNCHANGED mainVars
    /\ UNCHANGED << district_id, sub_district_id, years, khasra_id, nakals,
                    nakal_detail >>

after_get_villeges(villeges) ==
    /\ options' = villeges
    /\ IF args.village_name \notin DOMAIN villeges
       THEN /\ ReturnToMain(NotFound("Villege name:", args.village_name))
            /\ UNCHANGED villege_id
       ELSE /\ villege_id' = villeges[args.village_name]
            /\ pc' = "get_years"
            /\ UNCHANGED mainVars
    /\ UNCHANGED << district_id, sub_district_id, years, khasra_id, nakals,
                    nakal_detail >>

after_get_years(ys) ==
    /\ years' = ys
    /\ IF ys = << >>
       THEN ReturnToMain(Str(<< "Year is empty!" >>))
       ELSE pc' = "get_khasras" /\ UNCHANGED mainVars
    /\ options' = EmptyDict
    /\ UNCHANGED << district_id, sub_district_id, villege_id, khasra_id,
                    nakals, nakal_detail >>

after_get_khasras(khasras) ==
    /\ options' = khasras
    /\ IF args.khasra_no \notin DOMAIN khasras
       THEN /\ ReturnToMain(NotFound("Khasra number:", args.khasra_no))
            /\ UNCHANGED khasra_id
       ELSE /\ khasra_id' = khasras[args.khasra_no]
            /\ pc' = "get_nakals"
            /\ UNCHANGED mainVars
    /\ UNCHANGED << district_id, sub_district_id, villege_id, years, nakals,
                    nakal_detail >>

after_get_nakals(ids, detail) ==
    /\ nakals' = ids
    /\ nakal_detail' = detail
    /\ IF ids = << >>
       THEN ReturnToMain(Str(<< "Nakal is empty!" >>))
       ELSE pc' = "select_nakals" /\ UNCHANGED mainVars
    /\ options' = EmptyDict
    /\ UNCHANGED << district_id, sub_district_id, villege_id, years,
                    khasra_id >>

after_select_nakals ==
    /\ pc' = "get_nakal_html"
    /\ UNCHANGED << localVars, mainVars >>

(* The five spans read from the document, and the result dict. *)
after_get_nakal_html(doc) ==
    /\ ReturnToMain(Dict(
           [district_name |-> args.district_name,
            district_code |-> district_id,
            tehsil_name |-> args.sub_district_name,
            tehsil_code |-> sub_district_id,
            villege_name |-> args.village_name,
            villege_code |-> villege_id,
            jamabandi_year |-> years[1],
            khewat_no |-> nakal_detail.khewat_no,
            khatoni_no |-> nakal_detail.khatoni_no,
            khasra_code |-> khasra_id,
            khasra_no |-> args.khasra_no,
            inner_details |->
                [villege |-> doc.lblvill, hadbast_no |-> doc.lblhad,
                 tehsil |-> doc.lblteh, district |-> doc.lbldis,
                 year |-> doc.lblyer]]))
    /\ UNCHANGED localVars

(***************************************************************************)
(* JamabandiDataExtractor: one attempt of each step.                       *)
(***************************************************************************)

(* The GET of the form page.  The four fields are assigned from the page   *)
(* before they are validated.                                              *)
get_jamabandi_page ==
    /\ pc = "get_jamabandi_page"
    /\ \E r \in {TransportFailure} \cup FormPages :
        /\ request' = Get("NakalRecord")
        /\ response' = r
        /\ IF r.status # "ok"
           THEN Raise("get_jamabandi_page", RequestException) /\ UNCHANGED tokenVars
           ELSE /\ viewstate' = r.hidden.viewstate
                /\ event_arg' = r.hidden.event_arg
                /\ event_validation' = r.hidden.event_validation
                /\ viewstate_generator' = r.hidden.viewstate_generator
                /\ IF \/ Falsy(viewstate')
                      \/ Falsy(viewstate_generator')
                      \/ Falsy(event_validation')
                   THEN Raise("get_jamabandi_page", FormFieldNotFoundException(
                            << "viewstate", "event_validation",
                               "viewstate_generator" >>))
                   ELSE Return("get_jamabandi_page") /\ after_get_jamabandi_page
    /\ UNCHANGED << args, me, parked >>

get_districts ==
    /\ pc = "get_districts"
    /\ \E r \in {TransportFailure} \cup OptionPages(DistrictOptions) :
        /\ request' = Post("ctl00$ContentPlaceHolder1$RdobtnKhasra", "", "-1", Absent, Absent, Absent, Absent)
        /\ response' = r
        /\ IF r.status # "ok"
           THEN Raise("get_districts", RequestException) /\ UNCHANGED tokenVars
           ELSE IF TokensMissing(r)
           THEN /\ Raise("get_districts", FormFieldNotFoundException(
                         << "viewstate", "event_validation" >>))
                /\ UNCHANGED tokenVars
           ELSE /\ RefreshTokens(r)
                /\ IF DictOf(r.options) = << >>
                   THEN Raise("get_districts", FormFieldNotFoundException(<< "districts" >>))
                   ELSE Return("get_districts") /\ after_get_districts(DictOf(r.options))
    /\ UNCHANGED << args, me, parked >>

get_sub_districts ==
    /\ pc = "get_sub_districts"
    /\ \E r \in {TransportFailure} \cup OptionPages(TehsilOptions) :
        /\ request' = Post("ctl00$ContentPlaceHolder1$ddldname", event_arg, district_id, Absent, Absent, Absent, Absent)
        /\ response' = r
        /\ IF r.status # "ok"
           THEN Raise("get_sub_districts", RequestException) /\ UNCHANGED tokenVars
           ELSE IF TokensMissing(r)
           THEN /\ Raise("get_sub_districts", FormFieldNotFoundException(
                         << "viewstate", "event_validation" >>))
                /\ UNCHANGED tokenVars
           ELSE /\ RefreshTokens(r)
                /\ IF DictOf(r.options) = << >>
                   THEN Raise("get_sub_districts", FormFieldNotFoundException(<< "sub-districts" >>))
                   ELSE Return("get_sub_districts") /\ after_get_sub_districts(DictOf(r.options))
    /\ UNCHANGED << args, me, parked >>

get_villeges_AcceptsEmpty ==
    /\ pc = "get_villeges"
    /\ \E r \in {TransportFailure} \cup OptionPages(VillageOptions) :
        /\ request' = Post("ctl00$ContentPlaceHolder1$ddltname", event_arg, district_id, sub_district_id, Absent, Absent, Absent)
        /\ response' = r
        /\ IF r.status # "ok"
           THEN Raise("get_villeges", RequestException) /\ UNCHANGED tokenVars
           ELSE IF TokensMissing(r)
           THEN /\ Raise("get_villeges", FormFieldNotFoundException(
                         << "viewstate", "event_validation" >>))
                /\ UNCHANGED tokenVars
           ELSE /\ RefreshTokens(r)
                /\ IF FALSE
                   THEN Raise("get_villeges", FormFieldNotFoundException(<< "villeges" >>))
                   ELSE Return("get_villeges") /\ after_get_villeges(DictOf(r.options))
    /\ UNCHANGED << args, me, parked >>

get_villeges ==
    /\ pc = "get_villeges"
    /\ \E r \in {TransportFailure} \cup OptionPages(VillageOptions) :
        /\ request' = Post("ctl00$ContentPlaceHolder1$ddltname", event_arg, district_id, sub_district_id, Absent, Absent, Absent)
        /\ response' = r
        /\ IF r.status # "ok"
           THEN Raise("get_villeges", RequestException) /\ UNCHANGED tokenVars
           ELSE IF TokensMissing(r)
           THEN /\ Raise("get_villeges", FormFieldNotFoundException(
                         << "viewstate", "event_validation" >>))
                /\ UNCHANGED tokenVars
           ELSE /\ RefreshTokens(r)
                /\ IF DictOf(r.options) = << >>
                   THEN Raise("get_villeges", FormFieldNotFoundException(<< "villeges" >>))
                   ELSE Return("get_villeges") /\ after_get_villeges(DictOf(r.options))
    /\ UNCHANGED << args, me, parked >>

get_years_NewestOnly ==
    /\ pc = "get_years"
    /\ \E r \in {TransportFailure} \cup OptionPages(YearOptions) :
        /\ request' = Post("ctl00$ContentPlaceHolder1$ddlvname", event_arg, Absent, Absent, villege_id, Absent, Absent)
        /\ response' = r
        /\ IF r.status # "ok"
           THEN Raise("get_years", RequestException) /\ UNCHANGED tokenVars
           ELSE IF TokensMissing(r)
           THEN /\ Raise("get_years", FormFieldNotFoundException(
                         << "viewstate", "event_validation" >>))
                /\ UNCHANGED tokenVars
           ELSE /\ RefreshTokens(r)
                /\ IF ValuesOf(r.options) = << >>
                   THEN Raise("get_years", FormFieldNotFoundException(<< "years" >>))
                   ELSE Return("get_years") /\ after_get_years(ValuesOf(r.options))
    /\ UNCHANGED << args, me, parked >>

get_years ==
    /\ pc = "get_years"
    /\ \E r \in {TransportFailure} \cup OptionPages(YearOptions) :
        /\ request' = Post("ctl00$ContentPlaceHolder1$ddlvname", event_arg, district_id, sub_district_id, villege_id, Absent, Absent)
        /\ response' = r
        /\ IF r.status # "ok"
           THEN Raise("get_years", RequestException) /\ UNCHANGED tokenVars
           ELSE IF TokensMissing(r)
           THEN /\ Raise("get_years", FormFieldNotFoundException(
                         << "viewstate", "event_validation" >>))
                /\ UNCHANGED tokenVars
           ELSE /\ RefreshTokens(r)
                /\ IF ValuesOf(r.options) = << >>
                   THEN Raise("get_years", FormFieldNotFoundException(<< "years" >>))
                   ELSE Return("get_years") /\ after_get_years(ValuesOf(r.options))
    /\ UNCHANGED << args, me, parked >>

get_khasras_LastYear ==
    /\ pc = "get_khasras"
    /\ \E r \in {TransportFailure} \cup OptionPages(KhasraOptions) :
        /\ request' = Post("ctl00$ContentPlaceHolder1$ddlPeriod", event_arg, district_id, sub_district_id, villege_id, Last(years), Absent)
        /\ response' = r
        /\ IF r.status # "ok"
           THEN Raise("get_khasras", RequestException) /\ UNCHANGED tokenVars
           ELSE IF TokensMissing(r)
           THEN /\ Raise("get_khasras", FormFieldNotFoundException(
                         << "viewstate", "event_validation" >>))
                /\ UNCHANGED tokenVars
           ELSE /\ RefreshTokens(r)
                /\ IF DictOf(r.options) = << >>
                   THEN Raise("get_khasras", FormFieldNotFoundException(<< "khasras" >>))
                   ELSE Return("get_khasras") /\ after_get_khasras(DictOf(r.options))
    /\ UNCHANGED << args, me, parked >>

get_khasras ==
    /\ pc = "get_khasras"
    /\ \E r \in {TransportFailure} \cup OptionPages(KhasraOptions) :
        /\ request' = Post("ctl00$ContentPlaceHolder1$ddlPeriod", event_arg, district_id, sub_district_id, villege_id, years[1], Absent)
        /\ response' = r
        /\ IF r.status # "ok"
           THEN Raise("get_khasras", RequestException) /\ UNCHANGED tokenVars
           ELSE IF TokensMissing(r)
           THEN /\ Raise("get_khasras", FormFieldNotFoundException(
                         << "viewstate", "event_validation" >>))
                /\ UNCHANGED tokenVars
           ELSE /\ RefreshTokens(r)
                /\ IF DictOf(r.options) = << >>
                   THEN Raise("get_khasras", FormFieldNotFoundException(<< "khasras" >>))
                   ELSE Return("get_khasras") /\ after_get_khasras(DictOf(r.options))
    /\ UNCHANGED << args, me, parked >>

get_nakals ==
    /\ pc = "get_nakals"
    /\ \E r \in {TransportFailure} \cup CandidatePages :
        /\ request' = Post("ctl00$ContentPlaceHolder1$ddlkhasra", event_arg, district_id, sub_district_id, villege_id, years[1], khasra_id)
        /\ response' = r
        /\ IF r.status # "ok"
           THEN Raise("get_nakals", RequestException) /\ UNCHANGED tokenVars
           ELSE IF TokensMissing(r)
           THEN /\ Raise("get_nakals", FormFieldNotFoundException(
                         << "viewstate", "event_validation" >>))
                /\ UNCHANGED tokenVars
           ELSE /\ RefreshTokens(r)
                /\ IF ~RowsHaveLinks(r.rows)
                   THEN Raise("get_nakals", AttributeError)
                   ELSE IF NakalIds(r.rows) = << >>
                   THEN Raise("get_nakals", FormFieldNotFoundException(
                            << "nakals", "nakal_detail" >>))
                   ELSE /\ Return("get_nakals")
                        /\ after_get_nakals(NakalIds(r.rows), NakalDetail(r.rows))
    /\ UNCHANGED << args, me, parked >>

select_nakals ==
    /\ pc = "select_nakals"
    /\ \E r \in {TransportFailure} \cup FormPages :
        /\ request' = Post("ctl00$ContentPlaceHolder1$GridView1", nakals[1], district_id, sub_district_id, villege_id, years[1], khasra_id)
        /\ response' = r
        /\ IF r.status # "ok"
           THEN Raise("select_nakals", RequestException) /\ UNCHANGED tokenVars
           ELSE IF TokensMissing(r)
           THEN /\ Raise("select_nakals", FormFieldNotFoundException(
                         << "viewstate", "event_validation" >>))
                /\ UNCHANGED tokenVars
           ELSE /\ RefreshTokens(r)
                /\ Return("select_nakals")
                /\ after_select_nakals
    /\ UNCHANGED << args, me, parked >>

(* The GET of the document: no token is read from it. *)
get_nakal_html ==
    /\ pc = "get_nakal_html"
    /\ \E r \in {TransportFailure} \cup DocumentPages :
        /\ request' = Get("Nakal_khewat")
        /\ response' = r
        /\ UNCHANGED tokenVars
        /\ IF r.status # "ok"
           THEN Raise("get_nakal_html", RequestException)
           ELSE Return("get_nakal_html") /\ after_get_nakal_html(r.doc)
    /\ UNCHANGED << args, me, parked >>

Next ==
    \/ Main
    \/ get_jamabandi_page
    \/ get_districts
    \/ get_sub_districts
    \/ get_villeges
    \/ get_years
    \/ get_khasras
    \/ get_nakals
    \/ select_nakals
    \/ get_nakal_html

Spec == Init /\ [][Next]_vars

(* Every requests call returns, with a response or with an exception, and  *)
(* the interpreter goes on to the next statement: a run that can take a    *)
(* step takes one.                                                         *)
FairSpec == Spec /\ WF_vars(Next)

(***************************************************************************)
(* Two chains at once.  Each call of extract_data has its own              *)
(* JamabandiDataExtractor, whose __init__ gives it its own requests        *)
(* session and its own four token attributes; the wrapper's attempt and    *)
(* err and the codes of extract_data are locals of the call.  What the two *)
(* share is the database behind db_session.  The variables of the module   *)
(* are the state of the chain that runs; parked holds that of the chain    *)
(* that waits.                                                             *)
(***************************************************************************)
Cur ==
    [args |-> args, pc |-> pc, viewstate |-> viewstate, event_arg |-> event_arg,
     event_validation |-> event_validation,
     viewstate_generator |-> viewstate_generator, attempt |-> attempt,
     err |-> err, calls |-> calls, slept |-> slept, request |-> request,
     response |-> response, options |-> options, district_id |-> district_id,
     sub_district_id |-> sub_district_id, villege_id |-> villege_id,
     years |-> years, khasra_id |-> khasra_id, nakals |-> nakals,
     nakal_detail |-> nakal_detail, output |-> output,
     nakal_data |-> nakal_data, succeeded |-> succeeded]

Resume(c) ==
    /\ args' = c.args
    /\ pc' = c.pc
    /\ viewstate' = c.viewstate
    /\ event_arg' = c.event_arg
    /\ event_validation' = c.event_validation
    /\ viewstate_generator' = c.viewstate_generator
    /\ attempt' = c.attempt
    /\ err' = c.err
    /\ calls' = c.calls
    /\ slept' = c.slept
    /\ request' = c.request
    /\ response' = c.response
    /\ options' = c.options
    /\ district_id' = c.district_id
    /\ sub_district_id' = c.sub_district_id
    /\ villege_id' = c.villege_id
    /\ years' = c.years
    /\ khasra_id' = c.khasra_id
    /\ nakals' = c.nakals
    /\ nakal_detail' = c.nakal_detail
    /\ output' = c.output
    /\ nakal_data' = c.nakal_data
    /\ succeeded' = c.succeeded

Switch_SharedTokens ==
    /\ parked # NoChain
    /\ parked.pc \notin {"done", "exit", "crash"}
    /\ me' = 3 - me
    /\ parked' = Cur
    /\ Resume([parked EXCEPT !.viewstate = viewstate,
                             !.event_arg = event_arg,
                             !.event_validation = event_validation,
                             !.viewstate_generator = viewstate_generator])
    /\ UNCHANGED store

(* The chain that runs is left between two of its steps and the other one, *)
(* if it has not ended, goes on where it was left.                         *)
Switch ==
    /\ parked # NoChain
    /\ parked.pc \notin {"done", "exit", "crash"}
    /\ me' = 3 - me
    /\ parked' = Cur
    /\ Resume(parked)
    /\ UNCHANGED store

(* What the server sends on the session of chain c in the runs of two      *)
(* chains: its hidden inputs differ from those of the other session.       *)
HiddenFor(c) ==
    IF c = 1 THEN Hidden("v1", "a1", "e1", "g1") ELSE Hidden("v2", None, "e2", "g2")

Served(c, r) ==
    \/ r.status = "error"
    \/ /\ r.hidden \in {HiddenFor(c), Hidden(None, None, None, None)}
       /\ Len(r.options) <= 1
       /\ Len(r.rows) <= 1
       /\ r.doc \in {NoDoc, Doc("VillageA", "50", "TehsilA", "DistrictA", "2022-2023")}

(* Two runs for the same key on an empty store, the second one with        *)
(* --force_refresh, both before their first statement.                     *)
ConcInit ==
    /\ store = << >>
    /\ InitChain
    /\ args.district_name = "DistrictA"
    /\ ~args.force_refresh
    /\ me = 1
    /\ parked = [Cur EXCEPT !.args.force_refresh = TRUE]

ConcNext ==
    \/ Main
    \/ get_jamabandi_page /\ Served(me, response')
    \/ get_districts /\ Served(me, response')
    \/ get_sub_districts /\ Served(me, response')
    \/ get_villeges /\ Served(me, response')
    \/ get_years /\ Served(me, response')
    \/ get_khasras /\ Served(me, response')
    \/ get_nakals /\ Served(me, response')
    \/ select_nakals /\ Served(me, response')
    \/ get_nakal_html /\ Served(me, response')
    \/ Switch

ConcSpec == ConcInit /\ [][ConcNext]_vars

(***************************************************************************)
(* Runs one after the other on the same land_records.db.                   *)
(***************************************************************************)
(* A run before its first statement, started with the command line a. *)
Fresh(a) ==
    [args |-> a, pc |-> "main", viewstate |-> None, event_arg |-> None,
     event_validation |-> None, viewstate_generator |-> None, attempt |-> 0,
     err |-> NoErr, calls |-> 0, slept |-> << >>, request |-> NoRequest,
     response |-> NoResponse, options |-> EmptyDict, district_id |-> None,
     sub_district_id |-> None, villege_id |-> None, years |-> << >>,
     khasra_id |-> None, nakals |-> << >>, nakal_detail |-> EmptyDetail,
     output |-> NoValue, nakal_data |-> NoValue, succeeded |-> << >>]

(* The command lines of the runs: two of the districts are listed, and     *)
(* their names differ by case only.                                        *)
SeqArgs ==
    [district_name : DistrictNames \cup {"districta"},
     sub_district_name : TehsilNames, village_name : VillageNames,
     khasra_no : KhasraNumbers, force_refresh : BOOLEAN]

(* The program is started again once the run before it has ended; the     *)
(* table is what that run left.                                            *)
NextRun ==
    /\ pc \in {"done", "exit", "crash"}
    /\ \E a \in SeqArgs : Resume(Fresh(a))
    /\ UNCHANGED << store, me, parked >>

SeqInit ==
    /\ store = << >>
    /\ InitChain
    /\ me = 1
    /\ parked = NoChain

(* The pages served to these runs: one form state, at most one option and  *)
(* one candidate row each, one document.                                   *)
SmallPage(r) ==
    \/ r.status # "ok"
    \/ /\ r.hidden \in {Hidden("v1", "a1", "e1", "g1"), Hidden(None, None, None, None)}
       /\ Len(r.options) <= 1
       /\ Len(r.rows) <= 1
       /\ r.doc \in {NoDoc, Doc("VillageA", "50", "TehsilA", "DistrictA", "2022-2023")}

SeqNext ==
    \/ Main
    \/ get_jamabandi_page /\ SmallPage(response')
    \/ get_districts /\ SmallPage(response')
    \/ get_sub_districts /\ SmallPage(response')
    \/ get_villeges /\ SmallPage(response')
    \/ get_years /\ SmallPage(response')
    \/ get_khasras /\ SmallPage(response')
    \/ get_nakals /\ SmallPage(response')
    \/ select_nakals /\ SmallPage(response')
    \/ get_nakal_html /\ SmallPage(response')
    \/ NextRun

SeqSpec == SeqInit /\ [][SeqNext]_vars

(***************************************************************************)
(* LandRecordCRUD on its own: calls of its methods by a client that holds  *)
(* the session, with the arguments it may be given.                        *)
(***************************************************************************)
MaxStored == 3

(* The data dicts a caller may supply: the columns __main__ builds, any of *)
(* which may be None when the page did not have it.                        *)
CallData ==
    { [c \in DataColumns |-> StoredRecord(0, dn, dc, kh)[c]] :
        dn \in {"DistrictA", "districta"}, dc \in {"01", "02"},
        kh \in {"3", None} }

(* nakal_data = crud.create_record_by_checking_record(key..., data=data,   *)
(* force_refresh=force_refresh); an IntegrityError of commit() is not      *)
(* caught and ends the client.                                             *)
CallCreateRecordByChecking ==
    /\ pc = "crud"
    /\ Len(store) < MaxStored
    /\ MaxId(store) < MaxStored
    /\ \E a \in SeqArgs, data \in CallData :
        LET saved == create_record_by_checking_record(
                         store, a.district_name, a.sub_district_name,
                         a.village_name, a.khasra_no, data, a.force_refresh)
        IN  /\ args' = a
            /\ output' = Dict(data)
            /\ store' = saved.store
            /\ nakal_data' = IF saved.raised THEN NoValue ELSE saved.result
            /\ pc' = IF saved.raised THEN "crash" ELSE "crud"
    /\ UNCHANGED << tokenVars, wrapVars, localVars, request, response,
                    succeeded, me, parked >>

(* The ids a caller may pass: those the table can hold, and one it cannot. *)
RecordIds == 1..(MaxStored + 1)

(* True / False as returned by delete_record *)
Bool(b) == [type |-> "bool", flag |-> b]

(* nakal_data = crud.update_record(record_id=record_id, data=data) *)
CallUpdateRecord ==
    /\ pc = "crud"
    /\ \E record_id \in RecordIds, data \in CallData :
        LET saved == update_record(store, record_id, data)
        IN  /\ args' = [record_id |-> record_id]
            /\ output' = Dict(data)
            /\ store' = saved.store
            /\ nakal_data' = IF saved.raised THEN NoValue ELSE saved.result
            /\ pc' = IF saved.raised THEN "crash" ELSE "crud"
    /\ UNCHANGED << tokenVars, wrapVars, localVars, request, response,
                    succeeded, me, parked >>

(* nakal_data = crud.delete_record(record_id=record_id) *)
CallDeleteRecord ==
    /\ pc = "crud"
    /\ \E record_id \in RecordIds :
        LET saved == delete_record(store, record_id)
        IN  /\ args' = [record_id |-> record_id]
            /\ output' = NoValue
            /\ store' = saved.store
            /\ nakal_data' = Bool(saved.result)
            /\ pc' = "crud"
    /\ UNCHANGED << tokenVars, wrapVars, localVars, request, response,
                    succeeded, me, parked >>

StoreInit ==
    /\ store \in InitStores
    /\ args \in SeqArgs
    /\ pc = "crud"
    /\ viewstate = None
    /\ event_arg = None
    /\ event_validation = None
    /\ viewstate_generator = None
    /\ attempt = 0
    /\ err = NoErr
    /\ calls = 0
    /\ slept = << >>
    /\ request = NoRequest
    /\ response = NoResponse
    /\ options = EmptyDict
    /\ district_id = None
    /\ sub_district_id = None
    /\ villege_id = None
    /\ years = << >>
    /\ khasra_id = None
    /\ nakals = << >>
    /\ nakal_detail = EmptyDetail
    /\ output = NoValue
    /\ nakal_data = NoValue
    /\ succeeded = << >>
    /\ me = 1
    /\ parked = NoChain

StoreNext ==
    \/ CallCreateRecordByChecking
    \/ CallUpdateRecord
    \/ CallDeleteRecord

StoreSpec == StoreInit /\ [][StoreNext]_vars

(***************************************************************************)
(* Two runs that save at the same time.  Each run is a process with its    *)
(* own session on land_records.db; the SELECT of the lookup and the commit *)
(* of the write are separate statements, and the other process may run     *)
(* between them.                                                           *)
(***************************************************************************)
(* nakal_data = self.search_records_by_input_data(...) *)
CheckRecord ==
    /\ pc = "create_record_by_checking_record"
    /\ nakal_data' = List(search_records_by_input_data(
                          store, args.district_name, args.sub_district_name,
                          args.village_name, args.khasra_no))
    /\ pc' = "commit"
    /\ UNCHANGED << store, args, tokenVars, wrapVars, localVars, output,
                    request, response, succeeded, me, parked >>

(* The rest of create_record_by_checking_record, on what the lookup gave:  *)
(* return the row, update it by its id, or add a LandRecord of data.       *)
CreateOrUpdate ==
    /\ pc = "commit"
    /\ LET found == nakal_data.items
           saved == IF found # << >> /\ ~args.force_refresh
                    THEN StoreResult(store, Dict(found[1]), FALSE)
                    ELSE IF found # << >> /\ args.force_refresh
                    THEN update_record(store, found[1].id, output.value)
                    ELSE create_record(store, output.value)
       IN  /\ store' = saved.store
           /\ nakal_data' = IF saved.raised THEN nakal_data ELSE saved.result
           /\ pc' = IF saved.raised THEN "crash" ELSE "done"
    /\ UNCHANGED << args, tokenVars, wrapVars, localVars, output, request,
                    response, succeeded, me, parked >>

(* Both runs were started for the same key on an empty table, found        *)
(* nothing, got a result from extract_data and are about to save it.       *)
RaceInit ==
    /\ store = << >>
    /\ args \in SeqArgs
    /\ args.district_name = "DistrictA"
    /\ pc = "create_record_by_checking_record"
    /\ viewstate = None
    /\ event_arg = None
    /\ event_validation = None
    /\ viewstate_generator = None
    /\ attempt = 0
    /\ err = NoErr
    /\ calls = 0
    /\ slept = << >>
    /\ request = NoRequest
    /\ response = NoResponse
    /\ options = EmptyDict
    /\ district_id = None
    /\ sub_district_id = None
    /\ villege_id = None
    /\ years = << >>
    /\ khasra_id = None
    /\ nakals = << >>
    /\ nakal_detail = EmptyDetail
    /\ output \in { Dict(d) : d \in { e \in CallData : e.district_name = "DistrictA" } }
    /\ nakal_data = List(<< >>)
    /\ succeeded = << >>
    /\ me = 1
    /\ parked \in { [Cur EXCEPT !.args.force_refresh = f, !.output = Dict(d)] :
                       f \in BOOLEAN,
                       d \in { e \in CallData : e.district_name = "DistrictA" } }

RaceNext ==
    \/ CheckRecord
    \/ CreateOrUpdate
    \/ Switch

RaceSpec == RaceInit /\ [][RaceNext]_vars

(***************************************************************************)
(* Properties.                                                             *)
(***************************************************************************)
Steps == { StepOrder[i] : i \in DOMAIN StepOrder }

Position(step) == CHOOSE i \in DOMAIN StepOrder : StepOrder[i] = step


Found ==
    search_records_by_input_data(store, args.district_name,
        args.sub_district_name, args.village_name, args.khasra_no)

Names(missing) == { missing[i] : i \in DOMAIN missing }

(* The error of a response without its tokens, and of an empty extraction. *)
TokenMissingError(e) ==
    /\ e.type = "FormFieldNotFoundException"
    /\ {"viewstate", "event_validation"} \subseteq Names(e.missing_fields)

EmptyExtractionError(e) ==
    /\ e.type = "FormFieldNotFoundException"
    /\ "viewstate" \notin Names(e.missing_fields)

(* C1: at every step, an attempt whose response lacks viewstate or         *)
(* event_validation fails with the token-missing error and leaves the four *)
(* held tokens as they were before the attempt.                            *)
C1_TokenMissingKeepsTokens ==
    [][ (pc \in Steps /\ response'.status = "ok" /\ TokensMissing(response'))
        => /\ attempt' = attempt + 1
           /\ TokenMissingError(err')
           /\ TokenSet' = TokenSet ]_vars

(* C2: an attempt that fails by a transport failure or by an empty         *)
(* extraction target leaves the four held tokens as they were, so that the *)
(* re-attempt sends the tokens the failed attempt sent.                    *)
C2_FailedAttemptKeepsTokens ==
    [][ (/\ pc \in Steps
         /\ attempt' = attempt + 1
         /\ err'.type = "RequestException" \/ EmptyExtractionError(err'))
        => TokenSet' = TokenSet ]_vars

(* C3: a step that fails on every attempt is attempted exactly retries (3) *)
(* times, each failure followed by one sleep of the configured delay, and  *)
(* the wrapper then exits: never a further attempt, never an earlier exit. *)
C3_ExactlyThreeAttempts ==
    /\ calls <= retries
    /\ attempt <= calls
    /\ (pc = "exit") <=> (attempt = retries)
    /\ (pc = "exit") => (calls = retries /\ err # NoErr)
    /\ Len(slept) = attempt
    /\ \A i \in DOMAIN slept : slept[i] = delay

C3_Witness == pc = "exit" /\ calls = 3 /\ slept = << 5, 5, 5 >>

(* C4: at each of the four name-resolved levels, an Option Set that lacks  *)
(* the supplied name (exact match) ends the run at once with the not-found *)
(* message of that level and that name: no retry, no failure reported.     *)
LevelStep == << "get_districts", "get_sub_districts", "get_villeges", "get_khasras" >>
LevelPrefix ==
    << "District name:", "sub-district/tehsil name:", "Villege name:",
       "Khasra number:" >>
Supplied ==
    << args.district_name, args.sub_district_name, args.village_name,
       args.khasra_no >>

Labels(opts) == { opts[i].text : i \in DOMAIN opts }

(* The value of the last option of the page that carries the label. *)
ListedCode(opts, label) ==
    opts[CHOOSE i \in DOMAIN opts :
            /\ opts[i].text = label
            /\ \A j \in DOMAIN opts : j > i => opts[j].text # label].value

JustReturned(step) ==
    /\ succeeded # << >>
    /\ Last(succeeded) = step
    /\ calls = 0

C4_SelectorNotFound ==
    \A l \in 1..4 :
        (/\ JustReturned(LevelStep[l])
         /\ Supplied[l] \notin Labels(response.options))
        => /\ pc = "done"
           /\ DOMAIN options = Labels(response.options)
           /\ output = Str(<< LevelPrefix[l], Supplied[l], " not found!" >>)
           /\ nakal_data = output
           /\ attempt = 0
           /\ err = NoErr

C4_Witness ==
    /\ pc = "done"
    /\ JustReturned("get_districts")
    /\ args.district_name = "DistrictA"
    /\ response.options = << Opt("districta", "02") >>
    /\ output = Str(<< "District name:", "DistrictA", " not found!" >>)

(* C5: a well-formed candidates response with zero rows makes the run      *)
(* return the NoCandidates result: no retry of the step, no fatal abort.   *)
C5_NoCandidatesReturned ==
    [][ (/\ pc = "get_nakals"
         /\ response'.status = "ok"
         /\ ~TokensMissing(response')
         /\ response'.rows = << >>)
        => /\ pc' = "done"
           /\ output' = Str(<< "Nakal is empty!" >>)
           /\ attempt' = 0 ]_vars

(* C6: of a non-empty candidate list the first candidate, in list order,   *)
(* is the one passed to select_nakals, and the khewat_no and khatoni_no of *)
(* the result are those of the last row of that list.                      *)
C6_FirstCandidateLastDetail ==
    /\ (JustReturned("get_nakals") /\ pc = "select_nakals")
       => /\ response.rows # << >>
          /\ Len(nakals) = Len(response.rows)
          /\ nakals[1] = << "Select", StripCall(Last(response.rows[1].href)) >>
          /\ nakal_detail.khewat_no = response.rows[Len(response.rows)].td2
          /\ nakal_detail.khatoni_no = response.rows[Len(response.rows)].td3
    /\ request.target = "ctl00$ContentPlaceHolder1$GridView1"
       => request.event_argument = nakals[1]
    /\ output.type = "dict"
       => /\ output.value.khewat_no = nakal_detail.khewat_no
          /\ output.value.khatoni_no = nakal_detail.khatoni_no

C6_Witness ==
    /\ pc = "done"
    /\ output.type = "dict"
    /\ nakals = << << "Select", "1" >>, << "Select", "0" >> >>
    /\ request.method = "GET"
    /\ output.value.khewat_no = "3"
    /\ output.value.khatoni_no = "9"

(* C7: when every step succeeds and every supplied name is listed, the     *)
(* result holds the four supplied names, the code each name maps to in its *)
(* Option Set, and the confirmation fields of the candidate table.         *)
C7_ResolvedCodes ==
    /\ \A l \in 1..4 :
        (/\ JustReturned(LevelStep[l])
         /\ Supplied[l] \in Labels(response.options))
        => /\ pc = StepOrder[Position(LevelStep[l]) + 1]
           /\ << district_id, sub_district_id, villege_id, khasra_id >>[l]
                 = ListedCode(response.options, Supplied[l])
    /\ (succeeded # << >> /\ Last(succeeded) = "get_nakal_html")
       => /\ output.type = "dict"
          /\ output.value.district_name = args.district_name
          /\ output.value.tehsil_name = args.sub_district_name
          /\ output.value.villege_name = args.village_name
          /\ output.value.khasra_no = args.khasra_no
          /\ output.value.district_code = district_id
          /\ output.value.tehsil_code = sub_district_id
          /\ output.value.villege_code = villege_id
          /\ output.value.khasra_code = khasra_id
          /\ output.value.khewat_no = nakal_detail.khewat_no
          /\ output.value.khatoni_no = nakal_detail.khatoni_no

C7_Witness ==
    /\ output.type = "dict"
    /\ args.district_name = "DistrictA"
    /\ output.value.district_code = "01"
    /\ output.value.tehsil_code = "001"
    /\ output.value.villege_code = "0284"
    /\ output.value.khasra_code = "6"
    /\ output.value.khewat_no = "3"
    /\ output.value.khatoni_no = "9"
    /\ Len(nakals) = 1

(* C8: the run sends requests if and only if the store has no record of    *)
(* the key or force_refresh is set; served from the store it runs no step  *)
(* and leaves the store as it is, and with force_refresh it starts at the  *)
(* first step although a record exists.                                    *)
C8_CacheShortCircuit ==
    /\ [][ pc = "main"
           => /\ (pc' = "get_jamabandi_page")
                 <=> (Found = << >> \/ args.force_refresh)
              /\ (pc' # "get_jamabandi_page")
                 => (pc' = "done" /\ store' = store /\ nakal_data' = List(Found)) ]_vars
    /\ [](request # NoRequest => succeeded # << >> \/ pc = "get_jamabandi_page"
                                 \/ pc = "exit")
    /\ []((pc = "done" /\ output = NoValue)
            => (request = NoRequest /\ succeeded = << >> /\ ~ENABLED Next))

C8_Witness ==
    /\ args.force_refresh
    /\ Found # << >>
    /\ succeeded = << "get_jamabandi_page" >>
    /\ request.method = "GET"

(* C9: a force_refresh run that resolves while the store holds a record of *)
(* the key leaves as many records of the key as before, and the record it  *)
(* found keeps its id and gets the resolved values.                        *)
C9_ForceRefreshUpdates ==
    [][ (/\ pc = "get_nakal_html"
         /\ args.force_refresh
         /\ Found # << >>
         /\ output'.type = "dict")
        => /\ Len(Found') = Len(Found)
           /\ Len(store') = Len(store)
           /\ \E i \in DOMAIN store' :
                /\ store'[i].id = Found[1].id
                /\ \A c \in DataColumns : store'[i][c] = DataOf(output'.value)[c] ]_vars

(* C10: the steps run in the fixed order: the steps that have returned are *)
(* an initial part of the sequence, the step being attempted is the one    *)
(* after them, and every level's code is resolved before the next level's  *)
(* step starts.                                                            *)
RequestTarget ==
    << "", "ctl00$ContentPlaceHolder1$RdobtnKhasra",
       "ctl00$ContentPlaceHolder1$ddldname", "ctl00$ContentPlaceHolder1$ddltname",
       "ctl00$ContentPlaceHolder1$ddlvname", "ctl00$ContentPlaceHolder1$ddlPeriod",
       "ctl00$ContentPlaceHolder1$ddlkhasra", "ctl00$ContentPlaceHolder1$GridView1" >>

C10_FixedOrder ==
    /\ Len(succeeded) <= Len(StepOrder)
    /\ \A i \in DOMAIN succeeded : succeeded[i] = StepOrder[i]
    /\ pc \in Steps => pc = StepOrder[Len(succeeded) + 1]
    /\ (pc \in Steps /\ Position(pc) >= 3) => district_id # None
    /\ (pc \in Steps /\ Position(pc) >= 4) => sub_district_id # None
    /\ (pc \in Steps /\ Position(pc) >= 5) => villege_id # None
    /\ (pc \in Steps /\ Position(pc) >= 6) => years # << >>
    /\ (pc \in Steps /\ Position(pc) >= 7) => khasra_id # None
    /\ (pc \in Steps /\ Position(pc) >= 8) => nakals # << >>
    /\ request.method = "POST" =>
          \E i \in 2..8 : /\ request.target = RequestTarget[i]
                          /\ Len(succeeded) \in {i - 1, i}

C10_Witness == pc = "done" /\ succeeded = StepOrder

(* C11: every POST after get_districts repeats the code of every earlier   *)
(* level as extract_data holds it: the district code from get_sub_districts*)
(* on, then the sub-district code, the village code, the year and the      *)
(* khasra code, not only the newest one.                                   *)
CodesSent(r) == << r.ddldname, r.ddltname, r.ddlvname, r.ddlPeriod, r.ddlkhasra >>

CodesHeld ==
    << district_id, sub_district_id, villege_id,
       IF years = << >> THEN None ELSE years[1], khasra_id >>

(* The number of codes the step with the i-th request target passes. *)
CodesPassed == << 0, 0, 1, 2, 3, 4, 5, 5 >>

C11_CumulativeCodes ==
    \A i \in 3..8 :
        (request.method = "POST" /\ request.target = RequestTarget[i])
        => \A n \in 1..5 :
              IF n <= CodesPassed[i]
              THEN CodesSent(request)[n] = CodesHeld[n] /\ CodesHeld[n] # None
              ELSE CodesSent(request)[n] = Absent

C11_Witness ==
    /\ request.target = "ctl00$ContentPlaceHolder1$GridView1"
    /\ CodesSent(request) = << "01", "001", "0284", "2022-2023", "6" >>
    /\ succeeded # << >>
    /\ Last(succeeded) = "select_nakals"

(* C12: every request of a step after get_jamabandi_page carries the four  *)
(* tokens the extractor holds when it is sent, and the held viewstate and  *)
(* event_validation are those of the latest response of a step that        *)
(* returned: a step that returns takes them from its response, an attempt  *)
(* that fails leaves them.                                                 *)
C12_RequestCarriesTokens ==
    [][ (pc \in Steps /\ pc # "get_jamabandi_page")
        => /\ request'.viewstate = viewstate
           /\ request'.event_argument = event_arg
           /\ request'.event_validation = event_validation
           /\ request'.viewstate_generator = viewstate_generator
           /\ (succeeded' # succeeded /\ pc # "get_nakal_html")
              => /\ viewstate' = response'.hidden.viewstate
                 /\ event_validation' = response'.hidden.event_validation
           /\ succeeded' = succeeded
              => UNCHANGED << viewstate, event_validation >> ]_vars

(* C13: when a step has failed on its last attempt the run ends there by   *)
(* sys.exit: no step runs afterwards, extract_data has returned nothing to *)
(* __main__, and the store holds what it held when the run started.        *)
C13_ExhaustionEndsRun ==
    /\ [][ attempt' = retries
           => /\ pc' = "exit"
              /\ UNCHANGED << store, output, nakal_data, succeeded >> ]_vars
    /\ [](pc = "exit"
            => /\ ~ENABLED Next
               /\ output = NoValue
               /\ store \in InitStores
               /\ Len(succeeded) < Len(StepOrder))

C13_Witness ==
    /\ pc = "exit"
    /\ succeeded = << "get_jamabandi_page", "get_districts", "get_sub_districts" >>
    /\ request.target = "ctl00$ContentPlaceHolder1$ddltname"
    /\ store # << >>

(* C14: every run ends, and a run that sent requests ends in exactly one   *)
(* of three ways: extract_data returned the result dict, it returned a     *)
(* not-found / empty message, or the wrapper of the failing step called    *)
(* sys.exit.  The attempts of a run are at most 9 * retries: every attempt *)
(* raises Budget by at least one, Budget starts at 0 and never exceeds     *)
(* 9 * retries.                                                            *)
Ended == pc \in {"done", "exit", "crash"}

Budget == retries * Len(succeeded) + calls

ReturnedResult ==
    output.type = "dict" /\ succeeded = StepOrder /\ pc \in {"done", "crash"}

ReturnedFailure ==
    /\ output.type = "str"
    /\ pc = "done"
    /\ \/ \E l \in 1..4 : output = NotFound(LevelPrefix[l], Supplied[l])
       \/ output \in {Str(<< "Year is empty!" >>), Str(<< "Nakal is empty!" >>)}

FatalAbort == pc = "exit" /\ output = NoValue /\ attempt = retries

C14_TerminatesInOneOutcome ==
    /\ <>Ended
    /\ []((Ended /\ request # NoRequest)
            => /\ ReturnedResult \/ ReturnedFailure \/ FatalAbort
               /\ ~(ReturnedResult /\ ReturnedFailure)
               /\ ~(ReturnedResult /\ FatalAbort)
               /\ ~(ReturnedFailure /\ FatalAbort))
    /\ [](Ended => ~ENABLED Next)
    /\ [](Budget <= Len(StepOrder) * retries)
    /\ [][ (pc \in Steps) => (Budget' >= Budget + 1) ]_vars

C14_Witness ==
    /\ FatalAbort
    /\ pc = "exit"
    /\ Budget = 27
    /\ request.method = "GET"
    /\ request.url = "Nakal_khewat"

(* C15: the year sent by get_khasras, get_nakals and select_nakals and the *)
(* jamabandi_year of the result is the first value of the list get_years   *)
(* returned in this run, whatever the command line holds; the list is not  *)
(* changed once it is returned.                                            *)
YearTargets ==
    { "ctl00$ContentPlaceHolder1$ddlPeriod", "ctl00$ContentPlaceHolder1$ddlkhasra",
      "ctl00$ContentPlaceHolder1$GridView1" }

C15_FirstYearUsed ==
    /\ [](JustReturned("get_years")
            => /\ years # << >>
               /\ Len(years) = Len(response.options)
               /\ years[1] = response.options[1].value)
    /\ []((request.method = "POST" /\ request.target \in YearTargets)
            => request.ddlPeriod = years[1])
    /\ [](output.type = "dict" => output.value.jamabandi_year = years[1])
    /\ [][ (years # << >>) => (years' = years) ]_vars

C15_Witness ==
    /\ output.type = "dict"
    /\ years = << "2021-2022", "2022-2023" >>
    /\ output.value.jamabandi_year = "2021-2022"
    /\ request.method = "GET"

(* C16: a listing step (districts, sub-districts, villages, years, khasras,*)
(* nakals) that returns to extract_data returns a non-empty dict or list;  *)
(* an attempt whose response has its tokens but nothing to extract fails   *)
(* with FormFieldNotFoundException naming what is missing, and returns     *)
(* nothing.                                                                *)
ListingSteps ==
    { "get_districts", "get_sub_districts", "get_villeges", "get_years",
      "get_khasras", "get_nakals" }

MissingOf(step) ==
    CASE step = "get_districts" -> << "districts" >>
      [] step = "get_sub_districts" -> << "sub-districts" >>
      [] step = "get_villeges" -> << "villeges" >>
      [] step = "get_years" -> << "years" >>
      [] step = "get_khasras" -> << "khasras" >>
      [] step = "get_nakals" -> << "nakals", "nakal_detail" >>

(* What the page of an attempt of the step offers for extraction. *)
Extracted(step, r) == IF step = "get_nakals" THEN r.rows ELSE r.options

C16_ListingNonEmpty ==
    [][ (pc \in ListingSteps)
        => /\ (succeeded' # succeeded)
              => /\ Extracted(pc, response') # << >>
                 /\ CASE pc = "get_years" -> years' # << >>
                      [] pc = "get_nakals" -> nakals' # << >>
                      [] OTHER -> options' # EmptyDict
           /\ (/\ response'.status = "ok"
               /\ ~TokensMissing(response')
               /\ Extracted(pc, response') = << >>)
              => /\ succeeded' = succeeded
                 /\ attempt' = attempt + 1
                 /\ err' = FormFieldNotFoundException(MissingOf(pc))
                 /\ UNCHANGED << years, nakals, output >> ]_vars

C16_Witness ==
    /\ pc = "get_khasras"
    /\ response.status = "ok"
    /\ ~TokensMissing(response)
    /\ response.options = << >>
    /\ err = FormFieldNotFoundException(<< "khasras" >>)
    /\ attempt = 2

(* C17: when a run that sent requests gets the result dict, the store then *)
(* holds a record of the key whose columns are the values of that result,  *)
(* whatever the document gave for the five nakal_* fields.                 *)
C17_ResolvedResultPersisted ==
    [][ (pc = "get_nakal_html" /\ output'.type = "dict")
        => /\ pc' = "done"
           /\ \E i \in DOMAIN store' :
                /\ MatchesKey(store'[i], args.district_name,
                              args.sub_district_name, args.village_name,
                              args.khasra_no)
                /\ \A c \in DataColumns :
                      store'[i][c] = DataOf(output'.value)[c] ]_vars

(* C19: an attempt of a step either fails, and then the same step is       *)
(* attempted again or the run exits, or returns, and then the run goes on  *)
(* after it: no failure sends the run back to get_jamabandi_page or to any *)
(* earlier step, and no step returns twice in a run.                       *)
Occurrences(step) == Cardinality({ i \in DOMAIN succeeded : succeeded[i] = step })

C19_NoCoarserRetry ==
    /\ [][ (pc \in Steps)
           => \/ /\ succeeded' = succeeded
                 /\ attempt' = attempt + 1
                 /\ pc' \in {pc, "exit"}
                 /\ UNCHANGED << district_id, sub_district_id, villege_id,
                                 years, khasra_id, nakals, nakal_detail >>
              \/ /\ succeeded' = Append(succeeded, pc)
                 /\ attempt' = 0
                 /\ \/ pc' \in {"done", "crash"}
                    \/ /\ pc' \in Steps
                       /\ Position(pc') = Position(pc) + 1 ]_vars
    /\ [](\A step \in Steps : Occurrences(step) <= 1)

C19_Witness ==
    /\ pc = "get_villeges"
    /\ attempt = 2
    /\ err = RequestException
    /\ succeeded = << "get_jamabandi_page", "get_districts", "get_sub_districts" >>

(* C20 as claimed: at every step, get_jamabandi_page included, an attempt  *)
(* whose response has a non-empty viewstate and event_validation does not  *)
(* fail for missing tokens, whatever it has for event_argument and         *)
(* viewstate_generator.                                                    *)
C20_OnlyTwoTokensRequired ==
    [][ (pc \in Steps /\ response'.status = "ok" /\ ~TokensMissing(response'))
        => ~(attempt' = attempt + 1 /\ TokenMissingError(err')) ]_vars

(* C20 as amended: that holds of every step after get_jamabandi_page,      *)
(* which fail for missing tokens exactly when viewstate or                 *)
(* event_validation is missing (get_nakal_html never); get_jamabandi_page  *)
(* fails for missing tokens exactly when viewstate, event_validation or    *)
(* viewstate_generator is missing, whatever it has for event_argument.     *)
C20_RequiredTokens ==
    [][ (pc \in Steps /\ response'.status = "ok")
        => ((attempt' = attempt + 1 /\ TokenMissingError(err'))
            <=> CASE pc = "get_jamabandi_page"
                       -> \/ TokensMissing(response')
                          \/ Falsy(response'.hidden.viewstate_generator)
                  [] pc = "get_nakal_html" -> FALSE
                  [] OTHER -> TokensMissing(response')) ]_vars

C20_Witness ==
    /\ JustReturned("get_sub_districts")
    /\ response.hidden = Hidden("v2", None, "e2", "g2")
    /\ viewstate = "v2"
    /\ pc = "get_villeges"

(* C18: of two chains that run at once, each with its own extractor, a     *)
(* step of one leaves the state of the other (its tokens, its codes, its   *)
(* result) as it was, under every interleaving, and a chain holds and      *)
(* sends only token values that the server sent on its own session.        *)
ChainOf(c) == IF me = c THEN Cur ELSE parked

OwnValue(held, served) == held \in {None, Absent, served}

OwnTokens(c, ch) ==
    /\ OwnValue(ch.viewstate, HiddenFor(c).viewstate)
    /\ OwnValue(ch.event_arg, HiddenFor(c).event_arg)
    /\ OwnValue(ch.event_validation, HiddenFor(c).event_validation)
    /\ OwnValue(ch.viewstate_generator, HiddenFor(c).viewstate_generator)
    /\ OwnValue(ch.request.viewstate, HiddenFor(c).viewstate)
    /\ OwnValue(ch.request.event_validation, HiddenFor(c).event_validation)
    /\ OwnValue(ch.request.viewstate_generator, HiddenFor(c).viewstate_generator)

C18_ChainsIndependent ==
    /\ [][ \A c \in {1, 2} :
             (ChainOf(c)' # ChainOf(c)) => (c = me /\ me' = me) ]_vars
    /\ [](\A c \in {1, 2} : OwnTokens(c, ChainOf(c)))

C18_Witness ==
    /\ me = 2
    /\ pc = "get_villeges"
    /\ viewstate = "v2"
    /\ parked.pc = "get_khasras"
    /\ parked.viewstate = "v1"
    /\ parked.attempt = 1

(* C21: event_arg and viewstate_generator are assigned by                  *)
(* get_jamabandi_page only: an attempt of any later step, whether it       *)
(* returns or fails and whatever its response carries, leaves both as they *)
(* were.                                                                   *)
C21_OnlyInitializeSetsTheOtherTwo ==
    [][ (pc \in Steps /\ pc # "get_jamabandi_page")
        => UNCHANGED << event_arg, viewstate_generator >> ]_vars

C21_Witness ==
    /\ JustReturned("get_districts")
    /\ response.hidden = Hidden("v2", None, "e2", "g2")
    /\ viewstate = "v2"
    /\ event_arg = "a1"
    /\ viewstate_generator = "g1"

(* What extract_data receives from a step whose attempt got response r. *)
ValueReturned(step, r) ==
    CASE step \in {"get_districts", "get_sub_districts", "get_villeges", "get_khasras"}
             -> options' = DictOf(r.options)
      [] step = "get_years" -> years' = ValuesOf(r.options)
      [] step = "get_nakals"
             -> nakals' = NakalIds(r.rows) /\ nakal_detail' = NakalDetail(r.rows)
      [] step = "get_nakal_html"
             -> output'.value.inner_details.hadbast_no = r.doc.lblhad
      [] OTHER -> TRUE

(* C22: a step that returns after k failed attempts (k < retries) returns  *)
(* on attempt k + 1: the wrapper hands the value of that attempt to        *)
(* extract_data and ends, no further attempt of the step is made and the   *)
(* run goes on after it; no step is attempted more than retries times.     *)
C22_SuccessAfterFailures ==
    /\ [][ (pc \in Steps /\ succeeded' = Append(succeeded, pc))
           => /\ attempt < retries
              /\ calls = attempt
              /\ Len(slept) = attempt
              /\ response'.status = "ok"
              /\ ValueReturned(pc, response')
              /\ attempt' = 0
              /\ calls' = 0
              /\ pc' # pc
              /\ pc' \in Steps => Position(pc') = Position(pc) + 1 ]_vars
    /\ [](calls <= retries /\ attempt <= retries)

C22_Witness ==
    /\ pc = "get_years"
    /\ attempt = 2
    /\ calls = 2
    /\ ENABLED (get_years /\ succeeded' = Append(succeeded, "get_years")
                          /\ pc' = "get_khasras")

(* C23: the failure the wrapper holds, and prints when its attempts are    *)
(* used up, is that of the last failed attempt: after every failed attempt *)
(* err is the error of the response just received, whatever the earlier    *)
(* attempts failed with.                                                   *)
C23_LastFailureReported ==
    (calls > 0)
        => /\ err # NoErr
           /\ (err = RequestException) <=> (response.status # "ok")
           /\ TokenMissingError(err)
                 => \/ Falsy(response.hidden.viewstate)
                    \/ Falsy(response.hidden.event_validation)
                    \/ Falsy(response.hidden.viewstate_generator)
           /\ EmptyExtractionError(err) => ~TokensMissing(response)
           /\ (err = AttributeError) => ~RowsHaveLinks(response.rows)

C23_Witness ==
    /\ pc = "exit"
    /\ succeeded = << >>
    /\ err = RequestException
    /\ response = TransportFailure
    /\ viewstate = "v1"
    /\ Falsy(event_validation)

(* C24: the wrapper sleeps the same fixed delay after every failed         *)
(* attempt, the last one before it gives up included: the delays slept for *)
(* a step are as many as its failed attempts, and each of them is delay.   *)
C24_OneFixedDelayPerFailure ==
    /\ Len(slept) = attempt
    /\ \A i \in 1..Len(slept) : slept[i] = delay
    /\ (pc = "exit") => (Len(slept) = retries)

C24_Witness ==
    /\ pc = "exit"
    /\ Len(succeeded) = 2
    /\ attempt = retries
    /\ slept = << delay, delay, delay >>

(* C25: once get_jamabandi_page has returned, the held viewstate,          *)
(* event_validation and viewstate_generator are never empty or missing: no *)
(* later attempt of any step, returning or failing, stores an empty token. *)
C25_HeldTokensNonEmpty ==
    (succeeded # << >>)
        => /\ ~Falsy(viewstate)
           /\ ~Falsy(event_validation)
           /\ ~Falsy(viewstate_generator)

C25_Witness ==
    /\ pc = "get_sub_districts"
    /\ calls = 1
    /\ response.status = "ok"
    /\ Falsy(response.hidden.event_validation)
    /\ response.hidden.viewstate = "v1"
    /\ viewstate = "v2"
    /\ event_validation = "e2"

(* C26: once extract_data has returned "<selector> not found!" at a level, *)
(* the run has ended: the listing step of that level is the last step      *)
(* invoked, its request is the last one sent, no step is enabled any more, *)
(* and the held viewstate and event_validation are the ones that listing   *)
(* step took from its response.                                            *)
C26_NothingAfterNotFound ==
    \A l \in 1..4 :
        (output = NotFound(LevelPrefix[l], Supplied[l]))
        => /\ pc = "done"
           /\ ~ENABLED Next
           /\ Last(succeeded) = LevelStep[l]
           /\ calls = 0
           /\ request.target = RequestTarget[Position(LevelStep[l])]
           /\ Supplied[l] \notin Labels(response.options)
           /\ viewstate = response.hidden.viewstate
           /\ event_validation = response.hidden.event_validation

C26_Witness ==
    /\ output = NotFound("sub-district/tehsil name:", args.sub_district_name)
    /\ succeeded = << "get_jamabandi_page", "get_districts", "get_sub_districts" >>
    /\ viewstate = "v2"
    /\ viewstate_generator = "g1"
    /\ district_id # None
    /\ villege_id = None

(* C27: a run in which extract_data returned a message (a selector that    *)
(* was not found, or nothing to select) leaves land_records as it found    *)
(* it: no row is added, and with force_refresh the existing row of the key *)
(* is neither updated nor deleted.                                         *)
C27_FailureKeepsStore ==
    (output.type = "str")
        => /\ pc = "done"
           /\ nakal_data = output
           /\ store \in InitStores
           /\ Len(store) \in {0, 2}
           /\ (store # << >>) => (store[2] = StoredRecord(2, "DistrictA", "01", "3"))

C27_Witness ==
    /\ ReturnedFailure
    /\ args.force_refresh
    /\ Found # << >>
    /\ Found[1] = StoredRecord(2, "DistrictA", "01", "3")
    /\ Len(succeeded) >= 3

(* C28: whatever runs are made one after the other on an empty table, with *)
(* whatever keys, --force_refresh or not, and however each of them ends,   *)
(* no two rows of land_records have the same district_name, tehsil_name,   *)
(* villege_name and khasra_no.                                             *)
C28_OneRecordPerKey ==
    \A i, j \in 1..Len(store) :
        (i # j)
        => /\ ~MatchesKey(store[i], store[j].district_name,
                  store[j].tehsil_name, store[j].villege_name, store[j].khasra_no)
           /\ store[i].id # store[j].id

C28_Witness ==
    /\ pc = "done"
    /\ args.force_refresh
    /\ output.type = "dict"
    /\ Len(store) = 2
    /\ store[1].district_name = "DistrictA"
    /\ store[2].district_name = "districta"
    /\ nakal_data = Dict(store[1])
    /\ store[1].district_code = "02"

(* What a call of create_record_by_checking_record found for its key in    *)
(* the store it was made on.                                               *)
CallFound ==
    search_records_by_input_data(store, args'.district_name,
        args'.sub_district_name, args'.village_name, args'.khasra_no)

(* C30: create_record_by_checking_record with force_refresh off, for a key *)
(* that has a row, returns that row and leaves the table as it was; for a  *)
(* key without a row it appends exactly one row, which holds the supplied  *)
(* data, and returns it, with force_refresh on or off.                     *)
C30_CreateByChecking ==
    [][ (pc = "crud" /\ "force_refresh" \in DOMAIN args')
        => /\ (CallFound # << >> /\ ~args'.force_refresh)
              => /\ store' = store
                 /\ nakal_data' = Dict(CallFound[1])
                 /\ pc' = "crud"
           /\ (CallFound = << >>)
              => /\ Len(store') = Len(store) + 1
                 /\ SubSeq(store', 1, Len(store)) = store
                 /\ \A c \in DataColumns :
                       store'[Len(store')][c] = output'.value[c]
                 /\ nakal_data' = Dict(store'[Len(store')])
                 /\ pc' = "crud" ]_vars

(* C29: when two runs for the same key save into the same, initially empty *)
(* table at the same time, then however their lookups and writes are       *)
(* interleaved the table never holds more than one row of that key.        *)
C29_OneRecordUnderRace ==
    Len(search_records_by_input_data(store, args.district_name,
            args.sub_district_name, args.village_name, args.khasra_no)) <= 1

(* The call a client of LandRecordCRUD has just made, by its arguments. *)
UpdateCalled == "record_id" \in DOMAIN args' /\ output'.type = "dict"
DeleteCalled == "record_id" \in DOMAIN args' /\ output' = NoValue
HasId(s, id) == \E i \in 1..Len(s) : s[i].id = id

(* C31: update_record and delete_record with an id that no row has change  *)
(* nothing and say so by their value: update returns None and delete       *)
(* returns False, the table as it was; delete_record with the id of a row  *)
(* returns True and removes that row only, the other rows staying as they  *)
(* were and in their order.                                                *)
C31_UnknownIdChangesNothing ==
    [][ (pc = "crud")
        => /\ (UpdateCalled /\ ~HasId(store, args'.record_id))
              => /\ store' = store
                 /\ nakal_data' = NoValue
                 /\ pc' = "crud"
           /\ (DeleteCalled /\ ~HasId(store, args'.record_id))
              => /\ store' = store
                 /\ nakal_data' = Bool(FALSE)
                 /\ pc' = "crud"
           /\ (DeleteCalled /\ HasId(store, args'.record_id))
              => /\ nakal_data' = Bool(TRUE)
                 /\ Len(store') = Len(store) - 1
                 /\ ~HasId(store', args'.record_id)
                 /\ store' = SelectSeq(store, LAMBDA r : r.id # args'.record_id)
                 /\ pc' = "crud" ]_vars

C31_Witness ==
    /\ pc = "crud"
    /\ "record_id" \in DOMAIN args
    /\ args.record_id = 2
    /\ output = NoValue
    /\ nakal_data.type = "bool"
    /\ nakal_data.flag
    /\ Len(store) = 2
    /\ store[1].id = 1
    /\ store[2].id = 3

=============================================================================
